---------------------------- MODULE Spec2Model ----------------------------
(***************************************************************************)
(* A model of clmunch (src/src/clmunch/clmunch.py, utils.py): the parsing  *)
(* of one C-PAC log into a CpacRun, the sorted CpacRunCollection and the   *)
(* markdown report built from it.                                          *)
(*                                                                         *)
(* Strings whose characters the program looks at (pipeline_config, paths,  *)
(* the words of a command) are sequences of one-character strings, so that *)
(* comparison, splitting and filtering are computed character by           *)
(* character.  An Optional value is <<>> (None) or <<v>>.                  *)
(***************************************************************************)
EXTENDS Integers, Sequences, FiniteSets, TLC

\* ------------------------------------------------------------------ bounds
\* lines read from one log file
MaxLines == 3
\* largest seconds field of a well-formed timestamp
MaxSec == 1
\* log files found under the search path
MaxRuns == 3

\* ---------------------------------------------------------------- optional
None == <<>>

Some(x) == <<x>>

IsNone(o) == o = <<>>

Val(o) == o[1]

\* the element of a one-element set: {F(x) : x \in {e}} computes e once
\* and hands its value to F, as a call does
Only(S) == CHOOSE x \in S : TRUE

\* ------------------------------------------------------------------ numbers
Max(S) == CHOOSE x \in S : \A y \in S : y <= x

Min(S) == CHOOSE x \in S : \A y \in S : x <= y

\* ----------------------------------------------------------------- strings
\* The characters of the model's strings in code point order: Python
\* compares str values code point by code point.
AsciiOrder ==
  <<"-", ".", "/", "0", "1", "2", "3", "4", "5", "6", "7", "8", "9", "=",
    "A", "B", "_",
    "a", "b", "c", "d", "e", "f", "g", "h", "i", "j", "k", "l", "m",
    "n", "o", "p", "q", "r", "s", "t", "u", "v", "w", "x", "y", "z">>

Ord(c) == CHOOSE i \in 1..Len(AsciiOrder) : AsciiOrder[i] = c

RECURSIVE StrLess(_, _)
\* a < b on str: lexicographic, a proper prefix is smaller
StrLess(a, b) ==
  IF b = <<>> THEN FALSE
  ELSE IF a = <<>> THEN TRUE
  ELSE IF Head(a) = Head(b) THEN StrLess(Tail(a), Tail(b))
  ELSE Ord(Head(a)) < Ord(Head(b))

RECURSIVE SplitFrom(_, _, _)
\* str.split(sep) for a one-character sep; cur is the segment being read
SplitFrom(s, sep, cur) ==
  IF s = <<>> THEN <<cur>>
  ELSE IF Head(s) = sep THEN <<cur>> \o SplitFrom(Tail(s), sep, <<>>)
  ELSE SplitFrom(Tail(s), sep, Append(cur, Head(s)))

Split(s, sep) == SplitFrom(s, sep, <<>>)

RECURSIVE Concat(_)
Concat(ss) == IF ss = <<>> THEN <<>> ELSE Head(ss) \o Concat(Tail(ss))

\* the decimal digit of i as a character
Digit(i) == <<"0", "1", "2", "3", "4", "5", "6", "7", "8", "9">>[i + 1]


\* ------------------------------------------------------------- log lines
\* One line of a log file.  kind names the one anchored line pattern the
\* text of the line matches (the patterns start with different words, so a
\* line matches at most one); stamp, words and text are what that pattern
\* captures; sig is the error signature the text of the line holds, if any
\* (pat 0: none).  A signature that spans several physical lines is one
\* line here: the line patterns ignore every one of them.
NoStamp == [ss |-> 0, f |-> <<>>]

NoSig ==
  [pat |-> 0, node_block |-> "", target_work_flow |-> "",
   previous_node_block |-> "", missing_resources |-> ""]

Sig(p, nb, wf, prev, res) ==
  [pat |-> p, node_block |-> nb, target_work_flow |-> wf,
   previous_node_block |-> prev, missing_resources |-> res]

Line(k, st, ws, tx, sg) ==
  [kind |-> k, stamp |-> st, words |-> ws, text |-> tx, sig |-> sg]

TimestampLine(ss, f) == Line("timestamp", [ss |-> ss, f |-> f], <<>>, <<>>, NoSig)

CommandLine(ws) == Line("command", NoStamp, ws, <<>>, NoSig)

VersionLine(tx) == Line("version", NoStamp, <<>>, tx, NoSig)

PipelineConfigLine(tx) == Line("pipeline_config", NoStamp, <<>>, tx, NoSig)

SubjectWorkflowLine(tx) == Line("subject_workflow", NoStamp, <<>>, tx, NoSig)

SuccessLine == Line("success", NoStamp, <<>>, <<>>, NoSig)

SuccessTestConfigLine == Line("success_test_config", NoStamp, <<>>, <<>>, NoSig)

ErrorLine == Line("error", NoStamp, <<>>, <<>>, NoSig)

OtherLine(sg) == Line("other", NoStamp, <<>>, <<>>, sg)

\* re.match of each line pattern
RX_TIMESTAMP(line) == line.kind = "timestamp"

RX_CPAC_COMMAND(line) == line.kind = "command"

RX_CPAC_VERSION(line) == line.kind = "version"

RX_CPAC_END_PIPELINE_CONFIG(line) == line.kind = "pipeline_config"

RX_CPAC_END_SUBJECT_WORKFLOW(line) == line.kind = "subject_workflow"

RC_CPAC_END_SUCCESS(line) == line.kind = "success"

RC_CPAC_END_SUCCESS_TEST_CONFIG(line) == line.kind = "success_test_config"

RC_CPAC_END_ERROR(line) == line.kind = "error"

\* ------------------------------------------------------------ timestamps
\* %f reads 1 to 3 digits as a fraction of a second: ",5" and ",500" are
\* the same instant.  The value is in milliseconds.
FracToMs(f) ==
  LET d(i) == IF i <= Len(f) THEN f[i] ELSE 0
  IN  d(1) * 100 + d(2) * 10 + d(3)

\* datetime.strptime accepts the seconds it can read (%S: 00 to 61)
StrptimeOk(stamp) == stamp.ss <= 61

Strptime(stamp) == stamp.ss * 1000 + FracToMs(stamp.f)

\* -------------------------------------------------------------- commands
\* A command is the sequence of its words (joined by single blanks in the
\* log); "--preconfig" occurs in it only as a whole word.
W_test_config == <<"t", "e", "s", "t", "_", "c", "o", "n", "f", "i", "g">>

W_preconfig == <<"-", "-", "p", "r", "e", "c", "o", "n", "f", "i", "g">>

W_run == <<"r", "u", "n">>

\* " test_config " in command: the word with a blank on either side
HasTestConfig(command) ==
  \E i \in 2..(Len(command) - 1) : command[i] = W_test_config

\* re.search(r"--preconfig\s*(\S+)", command): the word after the leftmost
\* "--preconfig" that has a word after it
RX_CPAC_PIPELINE_CONFIG_COMMAND_FALLBACK(command) ==
  LET hits == {i \in 1..(Len(command) - 1) : command[i] = W_preconfig}
  IN  IF hits = {} THEN None
      ELSE Some(command[(CHOOSE i \in hits : \A j \in hits : i <= j) + 1])

\* ----------------------------------------------------------------- paths
\* A log file found under a search root: the root and the path below it.
LogPath(root, rel) == [dir |-> root, rel |-> rel]

\* str(log_file.relative_to(base_dir)), for a file below base_dir
RelativeTo(log_file, base_dir) == log_file.rel

\* --------------------------------------------------------------- CpacRun
\* The object under construction together with the locals of __init__.
\* diff and success are attributes __init__ creates by assigning them:
\* <<>> is "never assigned".  exc is the exception that ended __init__.
NewRun(log_file, base_dir) ==
  [log_file |-> log_file, base_dir |-> base_dir,
   min_time |-> None, max_time |-> None,
   command |-> None, test_config |-> None, version |-> None,
   pipeline_config |-> None, subject_workflow |-> None,
   error_info |-> None,
   cpac_success |-> FALSE, cpac_error |-> FALSE,
   log_text |-> <<>>,
   diff |-> <<>>, start |-> None, success |-> <<>>,
   exc |-> None]

\* variant: the first timestamp of the file is taken as the earliest
MinTimeAfter_first(min_time, stamp) ==
  IF IsNone(min_time) THEN Some(stamp) ELSE min_time

\* the two updates of the running minimum and maximum
MinTimeAfter(min_time, stamp) ==
  IF IsNone(min_time) \/ stamp < Val(min_time) THEN Some(stamp) ELSE min_time

MaxTimeAfter(max_time, stamp) ==
  IF IsNone(max_time) \/ stamp > Val(max_time) THEN Some(stamp) ELSE max_time

\* variant: the test-config sentence counts whatever the command was
TestConfigSuccess_always(test_config, line) ==
  RC_CPAC_END_SUCCESS_TEST_CONFIG(line)

\* self.test_config and re.match(RC_CPAC_END_SUCCESS_TEST_CONFIG, line):
\* None and False are both falsy
TestConfigSuccess(test_config, line) ==
  /\ ~IsNone(test_config)
  /\ Val(test_config)
  /\ RC_CPAC_END_SUCCESS_TEST_CONFIG(line)

\* the condition of the branch that sets cpac_success
MarksSuccess(test_config, line) ==
  RC_CPAC_END_SUCCESS(line) \/ TestConfigSuccess(test_config, line)

\* One turn of the read loop: the line is added to log_text and the first
\* branch whose pattern matches acts.
ParseLine(cr, line) ==
  LET r == [cr EXCEPT !.log_text = Append(@, line)]
  IN  IF RX_TIMESTAMP(line) THEN
        IF StrptimeOk(line.stamp)
        THEN [r EXCEPT !.min_time = MinTimeAfter(@, Strptime(line.stamp)),
                       !.max_time = MaxTimeAfter(@, Strptime(line.stamp))]
        ELSE [r EXCEPT !.exc = Some("ValueError")]
      ELSE IF RX_CPAC_COMMAND(line) THEN
        [r EXCEPT !.command = Some(line.words),
                  !.test_config = Some(HasTestConfig(line.words))]
      ELSE IF RX_CPAC_VERSION(line) THEN
        [r EXCEPT !.version = Some(line.text)]
      ELSE IF RX_CPAC_END_PIPELINE_CONFIG(line) THEN
        [r EXCEPT !.pipeline_config = Some(line.text)]
      ELSE IF RX_CPAC_END_SUBJECT_WORKFLOW(line) THEN
        [r EXCEPT !.subject_workflow = Some(line.text)]
      ELSE IF MarksSuccess(cr.test_config, line) THEN
        [r EXCEPT !.cpac_success = TRUE]
      ELSE IF RC_CPAC_END_ERROR(line) THEN
        [r EXCEPT !.cpac_error = TRUE]
      ELSE r

\* re.search(rx_error, log_text) for error pattern k: the leftmost
\* signature of that shape, or None
ErrorSearch(k, log_text) ==
  LET hits == {i \in 1..Len(log_text) : log_text[i].sig.pat = k}
  IN  IF hits = {} THEN None
      ELSE Some(log_text[CHOOSE i \in hits : \A j \in hits : i <= j].sig)

\* the order of RXS_CPAC_ERROR_LOOKUP
RXS_CPAC_ERROR_LOOKUP == <<1, 2, 3>>

\* variant: the signature that comes first in the text wins
FirstMatch_leftmost(rxs, log_text) ==
  LET hits == {i \in 1..Len(log_text) : log_text[i].sig.pat # 0}
  IN  IF hits = {} THEN None
      ELSE Some(log_text[CHOOSE i \in hits : \A j \in hits : i <= j].sig)

RECURSIVE FirstMatch(_, _)
\* for rx_error in rxs: if match: ...; break
FirstMatch(rxs, log_text) ==
  IF rxs = <<>> THEN None
  ELSE IF ~IsNone(ErrorSearch(Head(rxs), log_text))
       THEN ErrorSearch(Head(rxs), log_text)
       ELSE FirstMatch(Tail(rxs), log_text)

\* when the error signatures are looked for at all
LooksForError(cpac_success, cpac_error) == cpac_error \/ ~cpac_success

\* error_info before pipeline_config is copied into it
ErrorInfoOf(cr) ==
  IF LooksForError(cr.cpac_success, cr.cpac_error)
  THEN LET m == FirstMatch(RXS_CPAC_ERROR_LOOKUP, cr.log_text)
       IN  IF IsNone(m) THEN None
           ELSE Some([node_block |-> Val(m).node_block,
                      target_work_flow |-> Val(m).target_work_flow,
                      previous_node_block |-> Val(m).previous_node_block,
                      missing_resources |-> Val(m).missing_resources,
                      pipeline_config |-> None])
  ELSE None

\* self.diff is assigned only when both times are known
DiffOf(min_time, max_time) ==
  IF ~IsNone(max_time) /\ ~IsNone(min_time)
  THEN Some(Val(max_time) - Val(min_time))
  ELSE <<>>

\* variant: --preconfig of the command wins over the logged configuration
CommandFallback_first(pipeline_config, command) ==
  IF ~IsNone(command)
       /\ ~IsNone(RX_CPAC_PIPELINE_CONFIG_COMMAND_FALLBACK(Val(command)))
  THEN RX_CPAC_PIPELINE_CONFIG_COMMAND_FALLBACK(Val(command))
  ELSE pipeline_config

\* the fallback to the command line argument
CommandFallback(pipeline_config, command) ==
  IF IsNone(pipeline_config) /\ ~IsNone(command)
  THEN RX_CPAC_PIPELINE_CONFIG_COMMAND_FALLBACK(Val(command))
  ELSE pipeline_config

\* the fallback to the file name
FileFallback(pipeline_config, log_file, base_dir) ==
  IF IsNone(pipeline_config)
  THEN Some(RelativeTo(log_file, base_dir))
  ELSE pipeline_config

ResolvePipelineConfig(cr) ==
  FileFallback(CommandFallback(cr.pipeline_config, cr.command),
               cr.log_file, cr.base_dir)

\* variant: the error marker is not looked at
SuccessOf_noerror(cpac_success, cpac_error) == cpac_success

SuccessOf(cpac_success, cpac_error) == cpac_success /\ ~cpac_error

\* __init__ after the read loop
PostProcess(cr) ==
  LET ei == ErrorInfoOf(cr)
      pc == ResolvePipelineConfig(cr)
  IN  [cr EXCEPT
        !.error_info =
          IF IsNone(ei) THEN None
          ELSE Some([Val(ei) EXCEPT !.pipeline_config = pc]),
        !.diff = DiffOf(cr.min_time, cr.max_time),
        !.start = cr.min_time,
        !.pipeline_config = pc,
        !.success = Some(SuccessOf(cr.cpac_success, cr.cpac_error))]

RECURSIVE ReadLoop(_, _)
\* the read loop over the lines of a file; an exception ends it
ReadLoop(cr, lines) ==
  IF lines = <<>> \/ ~IsNone(cr.exc) THEN cr
  ELSE Only({ReadLoop(next, Tail(lines)) :
               next \in {ParseLine(cr, Head(lines))}})

\* CpacRun(log_file, base_dir) for a file holding the given lines
CpacRun(log_file, base_dir, lines) ==
  LET cr == ReadLoop(NewRun(log_file, base_dir), lines)
  IN  IF IsNone(cr.exc) THEN PostProcess(cr) ELSE cr

\* ------------------------------------------------------------ the inputs
\* The search root given on the command line; main() passes it as base too.
SearchPath == "root"

\* The path of the i-th log below the root: a directory named by the
\* gen192 scheme (id_pid_base-.._perturb-.._step-.._conn-.._nuisance-..),
\* and the log in it.
PathOf(i) ==
  <<Digit(i), "_", "p", "_", "b", "-", "a", "_", "p", "-", "c", "_",
    "s", "-", "f", "_", "c", "-", "n", "_", "n", "-", "t", "/", "l">>

StampFracs == {<<5>>, <<5, 0, 0>>}

Commands ==
  { <<W_run>>,
    <<W_run, W_test_config, W_preconfig, <<"a">> >>,
    <<W_run, W_preconfig, <<"b">>, W_test_config>>,
    <<W_run, W_test_config, W_preconfig>> }

ConfigTexts == { <<"b">>, <<>> }

Signatures ==
  { Sig(1, "nb1", "wf", "prev", "res"),
    Sig(1, "nb2", "wf", "prev", "res"),
    Sig(2, "nb1", "wf", "prev", "res2"),
    Sig(3, "nb3", "wf", "prev3", "res") }

\* the lines a log is made of
LogLines ==
  {TimestampLine(ss, f) : ss \in 0..MaxSec, f \in StampFracs}
    \cup {TimestampLine(99, <<0>>)}   \* a seconds field strptime rejects
    \cup {CommandLine(c) : c \in Commands}
    \cup {VersionLine(<<"1">>)}
    \cup {PipelineConfigLine(t) : t \in ConfigTexts}
    \cup {SubjectWorkflowLine(<<"w">>)}
    \cup {SuccessLine, SuccessTestConfigLine, ErrorLine}
    \cup {OtherLine(NoSig)}
    \cup {OtherLine(sg) : sg \in Signatures}

\* ----------------------------------------------------------------- state
VARIABLES
  cr,      \* the CpacRun being constructed
  pc,      \* where its __init__ is: "reading", "done", "raised"; "idle"
  phase,   \* where main() is: "start", "built", "rendered", "raised"; "idle"
  files,   \* the log files in the order find_log_files yields them
  runs,    \* CpacRunCollection.runs
  report   \* what report_md returned, or the exception it raised

vars == <<cr, pc, phase, files, runs, report>>

NoReport == [exc |-> None, n |-> 0, summary |-> <<>>, errors |-> None,
             slowest |-> None, details |-> <<>>]

\* ------------------------------------------- one CpacRun, line by line
InitRun ==
  /\ \E i \in 1..2 : cr = NewRun(LogPath(SearchPath, PathOf(i)), SearchPath)
  /\ pc = "reading"
  /\ phase = "idle"
  /\ files = <<>>
  /\ runs = <<>>
  /\ report = NoReport

\* f.readline() returns a line: one turn of the loop
ReadLine ==
  /\ pc = "reading"
  /\ Len(cr.log_text) < MaxLines
  /\ \E line \in LogLines :
       /\ cr' = ParseLine(cr, line)
       /\ pc' = IF IsNone(cr'.exc) THEN "reading" ELSE "raised"
  /\ UNCHANGED <<phase, files, runs, report>>

\* f.readline() returns "": the rest of __init__
EndOfFile ==
  /\ pc = "reading"
  /\ cr' = PostProcess(cr)
  /\ pc' = "done"
  /\ UNCHANGED <<phase, files, runs, report>>

NextRun == ReadLine \/ EndOfFile

SpecRun == InitRun /\ [][NextRun]_vars

\* ---------------------------------------------------- CpacRunCollection
\* a < b for the sort key (x.pipeline_config is None, x.pipeline_config):
\* False sorts before True, then the strings are compared
KeyLess(a, b) ==
  IF IsNone(a.pipeline_config) # IsNone(b.pipeline_config)
  THEN IsNone(b.pipeline_config)
  ELSE /\ ~IsNone(a.pipeline_config)
       /\ StrLess(Val(a.pipeline_config), Val(b.pipeline_config))

RECURSIVE InsertUnstable(_, _)
\* variant: a run goes before the runs of equal key already placed
InsertUnstable(r, sorted) ==
  IF sorted = <<>> THEN <<r>>
  ELSE IF KeyLess(Head(sorted), r)
       THEN <<Head(sorted)>> \o InsertUnstable(r, Tail(sorted))
       ELSE <<r>> \o sorted

RECURSIVE Insert(_, _)
\* r goes after every run already placed whose key is not greater
Insert(r, sorted) ==
  IF sorted = <<>> THEN <<r>>
  ELSE IF KeyLess(r, Head(sorted))
       THEN <<r>> \o sorted
       ELSE <<Head(sorted)>> \o Insert(r, Tail(sorted))

RECURSIVE SortFrom(_, _)
SortFrom(rs, sorted) ==
  IF rs = <<>> THEN sorted
  ELSE Only({SortFrom(Tail(rs), placed) :
               placed \in {Insert(Head(rs), sorted)}})

\* list.sort(key=...): ascending by key and stable
SortRuns(rs) == SortFrom(rs, <<>>)

RECURSIVE ParseAll(_, _)
\* [CpacRun(f, base_path) for f in find_log_files(search_path)]
ParseAll(fs, base_path) ==
  IF fs = <<>> THEN <<>>
  ELSE <<CpacRun(Head(fs).path, base_path, Head(fs).lines)>>
         \o ParseAll(Tail(fs), base_path)

\* ------------------------------------------------------------- utils.py
HTML_SYMBOL_SUCCESS == "&#9989;"

HTML_SYMBOL_FAILURE == "&#10060;"

bool_to_emoji(x) == IF x THEN HTML_SYMBOL_SUCCESS ELSE HTML_SYMBOL_FAILURE

\* str.lower() on one character
Lower(c) == IF c = "A" THEN "a" ELSE IF c = "B" THEN "b" ELSE c

\* [^0-9a-z_-]: the characters a heading id may not hold
IdLegal(c) == c \notin {".", "/", "=", "A", "B"}

RECURSIVE markdown_heading_to_id(_)
markdown_heading_to_id(heading) ==
  IF heading = <<>> THEN <<>>
  ELSE (IF IdLegal(Lower(Head(heading))) THEN <<Lower(Head(heading))>>
        ELSE <<>>)
       \o markdown_heading_to_id(Tail(heading))

\* "[title](#id)" with the heading as title
markdown_heading_to_link(heading) ==
  [title |-> heading, id |-> markdown_heading_to_id(heading)]

\* ------------------------------------------------------- CpacRun.record
\* record() reads self.diff: the attribute must exist
RecordRaises(run) == run.diff = <<>>

Record(run) ==
  [file |-> run.log_file, start |-> run.start, duration |-> run.diff,
   command |-> run.command, version |-> run.version,
   pipeline_config |-> run.pipeline_config,
   subject_workflow |-> run.subject_workflow,
   success |-> Val(run.success)]

\* md_report(): the section of one run; the log tail is added for a run
\* that did not succeed
MdReport(run) ==
  [file |-> run.pipeline_config, File |-> run.log_file,
   Start |-> run.start, Duration |-> run.diff,
   Success |-> bool_to_emoji(Val(run.success)),
   tail |-> ~Val(run.success)]

\* ---------------------------------------------------- _gen192_table_proc
\* the columns pipeline_config is split into
Gen192Columns ==
  <<"id", "pid", "base_pipeline", "perturb_pipeline", "step",
    "connectivity", "nuisance">>

\* df["pipeline_config"].str.split("/").str[0], then .str.split("_")
Segments(pipeline_config) == Split(Split(pipeline_config, "/")[1], "_")

\* expand=True: as many columns as the longest row has segments
ExpandWidth(error_records) ==
  Max({Len(Segments(Val(error_records[i].pipeline_config))) :
         i \in 1..Len(error_records)})

\* assigning the expanded frame to the seven columns
SplitRaises(error_records) ==
  ExpandWidth(error_records) # Len(Gen192Columns)

\* column k of a row: its k-th segment, or None where the row is shorter
Column(segs, k) == IF k <= Len(segs) THEN Some(segs[k]) ELSE None

\* .str.split("-", n=1).str[1]: what follows the first dash, or NaN
AfterDash(col) ==
  IF IsNone(col) THEN None
  ELSE LET parts == Split(Val(col), "-")
       IN  IF Len(parts) < 2 THEN None
           ELSE Some(Concat(<<parts[2]>> \o
                  [i \in 1..(Len(parts) - 2) |-> <<"-">> \o parts[i + 2]]))

\* the row of one error record after the split, the drop of pid and
\* target_work_flow and the reordering
Gen192Row(e) ==
  LET segs == Segments(Val(e.pipeline_config))
  IN  [id |-> Column(segs, 1),
       base_pipeline |-> AfterDash(Column(segs, 3)),
       perturb_pipeline |-> AfterDash(Column(segs, 4)),
       step |-> AfterDash(Column(segs, 5)),
       connectivity |-> AfterDash(Column(segs, 6)),
       nuisance |-> AfterDash(Column(segs, 7)),
       missing_resources |-> e.missing_resources,
       node_block |-> e.node_block,
       previous_node_block |-> e.previous_node_block]

\* the subset the rows are grouped and deduplicated by
Triple(row) ==
  <<row.missing_resources, row.node_block, row.previous_node_block>>

\* variant: the rows are counted after the duplicates were dropped
GroupCountAfterDrop(rows, i) == 1

\* groupby(subset)["id"].transform("count"): the rows of the group of row
\* i whose id is not null
GroupCount(rows, i) ==
  Cardinality({j \in 1..Len(rows) :
     Triple(rows[j]) = Triple(rows[i]) /\ ~IsNone(rows[j].id)})

\* drop_duplicates(subset, keep="first")
IsFirstOfGroup(rows, i) ==
  \A j \in 1..(i - 1) : Triple(rows[j]) # Triple(rows[i])

RECURSIVE KeepFirst(_, _)
KeepFirst(rows, i) ==
  IF i > Len(rows) THEN <<>>
  ELSE (IF IsFirstOfGroup(rows, i)
        THEN << [row |-> rows[i],
                 number_of_pipelines_with_this_error |-> GroupCount(rows, i)] >>
        ELSE <<>>)
       \o KeepFirst(rows, i + 1)

\* the table, for error records the split accepts
Gen192TableProc(error_records) ==
  KeepFirst([i \in 1..Len(error_records) |-> Gen192Row(error_records[i])], 1)

\* ------------------------------------------------------------- report_md
\* variant: only the runs that succeeded are listed
OverviewRowsSucceeded(records) ==
  LET ok == SelectSeq(records, LAMBDA r : r.success)
  IN  [i \in 1..Len(ok) |->
        [pipeline_config |-> markdown_heading_to_link(Val(ok[i].pipeline_config)),
         duration |-> ok[i].duration,
         success |-> HTML_SYMBOL_SUCCESS]]

\* df_overview[["pipeline_config", "duration", "success"]]
OverviewRows(records) ==
  [i \in 1..Len(records) |->
    [pipeline_config |-> markdown_heading_to_link(Val(records[i].pipeline_config)),
     duration |-> records[i].duration,
     success |-> bool_to_emoji(records[i].success)]]

\* [x.error_info for x in self.runs if x.error_info is not None]
ErrorRecords(rs) ==
  LET with == SelectSeq(rs, LAMBDA r : ~IsNone(r.error_info))
  IN  [i \in 1..Len(with) |-> Val(with[i].error_info)]

\* df_overview["duration"].max(): null durations are skipped
MaxDuration(records) ==
  LET ds == {Val(records[i].duration) :
               i \in {j \in 1..Len(records) : ~IsNone(records[j].duration)}}
  IN  IF ds = {} THEN None ELSE Some(Max(ds))

\* The exception report_md ends with, or None: record() of a run without
\* diff, the "success" column of a frame built from no record, the column
\* split of the error table.
ReportException(rs, include_gen192_table) ==
  IF \E i \in 1..Len(rs) : RecordRaises(rs[i]) THEN Some("AttributeError")
  ELSE IF rs = <<>> THEN Some("KeyError")
  ELSE IF /\ include_gen192_table
          /\ ErrorRecords(rs) # <<>>
          /\ SplitRaises(ErrorRecords(rs))
  THEN Some("ValueError")
  ELSE None

\* the parts of the rendered report
ReportMd(rs, include_gen192_table) ==
  LET records == [i \in 1..Len(rs) |-> Record(rs[i])]
  IN  [exc |-> None,
       n |-> Len(rs),
       summary |-> OverviewRows(records),
       errors |-> IF include_gen192_table /\ ErrorRecords(rs) # <<>>
                  THEN Some(Gen192TableProc(ErrorRecords(rs)))
                  ELSE None,
       slowest |-> MaxDuration(records),
       details |-> [i \in 1..Len(rs) |-> MdReport(rs[i])]]

\* ------------------------------------------------- the logs on the disk
\* the error signatures of the logs below
Sig_A == Sig(1, "nb1", "wf", "prev", "res")

Sig_B == Sig(3, "nb3", "wf", "prev3", "res")

\* the contents a log file may have
LogCatalogue ==
  << \* succeeded after one second, --preconfig a
    << TimestampLine(0, <<5>>),
       CommandLine(<<W_run, W_preconfig, <<"a">> >>),
       TimestampLine(1, <<5>>),
       SuccessLine >>,
    \* succeeded, --preconfig b
    << TimestampLine(0, <<5>>),
       CommandLine(<<W_run, W_preconfig, <<"b">> >>),
       SuccessLine >>,
    \* failed with signature A; named by its path
    << TimestampLine(0, <<5>>), OtherLine(Sig_A), ErrorLine >>,
    \* failed with signature B, --preconfig a
    << TimestampLine(0, <<5>>),
       CommandLine(<<W_run, W_preconfig, <<"a">> >>),
       OtherLine(Sig_B) >>,
    \* succeeded, no timestamp in the log
    << SuccessLine >>,
    \* a timestamp strptime rejects
    << TimestampLine(99, <<0>>) >> >>

\* the orders in which n of the log paths may be found
PathOrders(n) ==
  {p \in [1..n -> 1..MaxRuns] : \A i, j \in 1..n : i # j => p[i] # p[j]}

\* what find_log_files yields: n files of distinct paths in file system
\* order p, the i-th holding the lines of log c[i] of the catalogue
FileSeq(n, p, c) ==
  [i \in 1..n |->
    [path |-> LogPath(SearchPath, PathOf(p[i])), lines |-> LogCatalogue[c[i]]]]

\* ------------------------------------------------------------------ main
Init ==
  /\ cr = NewRun(LogPath(SearchPath, PathOf(1)), SearchPath)
  /\ pc = "idle"
  /\ phase = "start"
  /\ files = <<>>
  /\ runs = <<>>
  /\ report = NoReport

\* CpacRunCollection(path_searchdir, path_searchdir): every log found is
\* parsed, then the runs are sorted; an exception of a CpacRun ends it
Build ==
  /\ phase = "start"
  /\ \E n \in 0..MaxRuns :
     \E p \in PathOrders(n), c \in [1..n -> 1..Len(LogCatalogue)] :
       \E fs \in {FileSeq(n, p, c)} :
       \E rs \in {ParseAll(fs, SearchPath)} :
           /\ files' = fs
           /\ IF \E i \in 1..Len(rs) : ~IsNone(rs[i].exc)
              THEN runs' = <<>> /\ phase' = "failed"
              ELSE runs' = SortRuns(rs) /\ phase' = "built"
  /\ UNCHANGED <<cr, pc, report>>

\* report_md(include_gen192_table)
Report ==
  /\ phase = "built"
  /\ \E include_gen192_table \in BOOLEAN :
       LET e == ReportException(runs, include_gen192_table)
       IN  IF IsNone(e)
           THEN /\ report' = ReportMd(runs, include_gen192_table)
                /\ phase' = "rendered"
           ELSE /\ report' = [NoReport EXCEPT !.exc = e]
                /\ phase' = "raised"
  /\ UNCHANGED <<cr, pc, files, runs>>

Next == Build \/ Report

Spec == Init /\ [][Next]_vars

\* ------------------------------------------------- properties of CpacRun
\* what the claims say, read off the lines of the log alone
Log == cr.log_text

KindAt(k) == {i \in 1..Len(Log) : Log[i].kind = k}

\* the latest "Run command:" line before line i holds " test_config "
IsTestConfigAt(log, i) ==
  LET cs == {j \in 1..(i - 1) : log[j].kind = "command"}
  IN  /\ cs # {}
      /\ \E k \in 2..(Len(log[Max(cs)].words) - 1) :
           log[Max(cs)].words[k] = W_test_config

\* line i is a success marker: "CPAC run complete:", or the test-config
\* sentence read while is_test_config is true
SuccessMarkerAt(log, i) ==
  \/ log[i].kind = "success"
  \/ log[i].kind = "success_test_config" /\ IsTestConfigAt(log, i)

\* C1: the parsed record's success is true if and only if at least one
\* success-marker line was read and no "CPAC run error:" line was read; a
\* log with both markers and a log with no marker both give success = false.
C1_SuccessIffMarkerAndNoError ==
  pc = "done" =>
    (Val(cr.success) <=>
       /\ \E i \in 1..Len(Log) : SuccessMarkerAt(Log, i)
       /\ KindAt("error") = {})

\* a finished run whose log holds the error marker and, after it, the
\* success marker
C1_Witness ==
  /\ pc = "done"
  /\ \E i, j \in 1..Len(Log) :
       i < j /\ Log[i].kind = "error" /\ Log[j].kind = "success"
  /\ cr.success = Some(FALSE)

\* the name after the leftmost "--preconfig" of a command, if any
PreconfigNames(command) ==
  {command[i + 1] : i \in {j \in 1..(Len(command) - 1) :
      /\ command[j] = W_preconfig
      /\ \A k \in 1..(j - 1) : command[k] # W_preconfig}}

\* C2: pipeline_config is (a) the value of the "Pipeline configuration:"
\* line if one was read, even when the command holds --preconfig; else (b)
\* the name after --preconfig if a command was read and holds one; else
\* (c) the log file's path relative to base_dir; and it is never absent.
C2_PipelineConfigPriority ==
  pc = "done" =>
    /\ ~IsNone(cr.pipeline_config)
    /\ IF KindAt("pipeline_config") # {}
       THEN Val(cr.pipeline_config) = Log[Max(KindAt("pipeline_config"))].text
       ELSE IF /\ KindAt("command") # {}
               /\ PreconfigNames(Log[Max(KindAt("command"))].words) # {}
       THEN Val(cr.pipeline_config)
              \in PreconfigNames(Log[Max(KindAt("command"))].words)
       ELSE Val(cr.pipeline_config) = cr.log_file.rel

\* a finished run whose log holds both a "Pipeline configuration:" line and
\* a command with --preconfig naming something else
C2_Witness ==
  /\ pc = "done"
  /\ KindAt("pipeline_config") # {}
  /\ KindAt("command") # {}
  /\ PreconfigNames(Log[Max(KindAt("command"))].words) # {}
  /\ Val(cr.pipeline_config)
       \notin PreconfigNames(Log[Max(KindAt("command"))].words)

\* the error patterns that match somewhere in the log
PatternsIn(log) == {log[i].sig.pat : i \in 1..Len(log)} \ {0}

\* C4: error_info is present if and only if the run is not successful and
\* some error pattern matches in the log text; when present it holds the
\* fields captured by the first pattern, in the order 1, 2, 3, that matches
\* (at its leftmost match), wherever the other patterns match in the text.
C4_ErrorInfoIffFailedAndMatched ==
  pc = "done" =>
    /\ ~IsNone(cr.error_info) <=>
         (~Val(cr.success) /\ PatternsIn(Log) # {})
    /\ ~IsNone(cr.error_info) =>
         LET k == Min(PatternsIn(Log))
             i == Min({j \in 1..Len(Log) : Log[j].sig.pat = k})
             e == Val(cr.error_info)
         IN  /\ e.node_block = Log[i].sig.node_block
             /\ e.target_work_flow = Log[i].sig.target_work_flow
             /\ e.previous_node_block = Log[i].sig.previous_node_block
             /\ e.missing_resources = Log[i].sig.missing_resources

\* a failed run whose log holds a pattern-2 signature before a pattern-1
\* signature, and whose error_info is the pattern-1 capture
C4_Witness ==
  /\ pc = "done"
  /\ ~IsNone(cr.error_info)
  /\ \E i, j \in 1..Len(Log) :
       /\ i < j
       /\ Log[i].sig.pat = 2
       /\ Log[j].sig.pat = 1
       /\ Val(cr.error_info).node_block = Log[j].sig.node_block
       /\ Val(cr.error_info).node_block # Log[i].sig.node_block

\* the instants of the timestamped lines
Instants(log) ==
  {log[i].stamp.ss * 1000 + FracToMs(log[i].stamp.f) :
     i \in {j \in 1..Len(log) : log[j].kind = "timestamp"}}

\* C8: for a log with at least one timestamp line, start is the earliest
\* timestamp and duration is the latest minus the earliest, in whatever
\* order they appear; duration is never negative, and is zero when all the
\* timestamps are equal.
C8_StartAndDuration ==
  (pc = "done" /\ Instants(Log) # {}) =>
    /\ cr.start = Some(Min(Instants(Log)))
    /\ cr.diff = Some(Max(Instants(Log)) - Min(Instants(Log)))
    /\ Val(cr.diff) >= 0
    /\ (Cardinality(Instants(Log)) = 1 => Val(cr.diff) = 0)

\* a finished run whose log holds a later timestamp before an earlier one
C8_Witness ==
  /\ pc = "done"
  /\ \E i, j \in 1..Len(Log) :
       /\ i < j
       /\ Log[i].kind = "timestamp"
       /\ Log[j].kind = "timestamp"
       /\ Log[i].stamp.ss > Log[j].stamp.ss
  /\ Val(cr.diff) > 0

\* C9: reading the test-config success sentence marks success only when
\* the most recent "Run command:" line read so far holds " test_config "
\* (not when no command was read or the latest lacks it), while reading
\* "CPAC run complete:" marks success whatever is_test_config is.
C9_TestConfigSentenceNeedsTestConfig ==
  [][ (/\ pc = "reading"
       /\ Len(cr'.log_text) = Len(cr.log_text) + 1
       /\ ~cr.cpac_success)
      => LET line == cr'.log_text[Len(cr'.log_text)]
         IN  /\ line.kind = "success_test_config" =>
                  (cr'.cpac_success <=>
                     IsTestConfigAt(cr'.log_text, Len(cr'.log_text)))
             /\ line.kind = "success" => cr'.cpac_success ]_vars

\* the sentence was read after a test_config command and marked success,
\* with no "CPAC run complete:" line in the log
C9_Witness ==
  /\ Len(Log) >= 2
  /\ Log[Len(Log)].kind = "success_test_config"
  /\ IsTestConfigAt(Log, Len(Log))
  /\ KindAt("success") = {}
  /\ cr.cpac_success

\* ------------------------------------- properties of the collection
\* main() got past the constructor of the collection
Built == phase \in {"built", "rendered", "raised"}

\* a before b in "pipeline_config ascending, absent last"
ConfigBefore(a, b) ==
  IF IsNone(a) THEN FALSE
  ELSE IF IsNone(b) THEN TRUE
  ELSE StrLess(Val(a), Val(b))

\* the place of a run's log file in the order of discovery
DiscoveryIndex(run) ==
  CHOOSE i \in 1..Len(files) : files[i].path = run.log_file

\* a run with nothing but a pipeline_config, for the example of the claim
RunNamed(config) ==
  [NewRun(LogPath(SearchPath, <<>>), SearchPath)
     EXCEPT !.pipeline_config = config]

\* C3: runs is a permutation of the records of the discovered log files,
\* ordered by pipeline_config ascending with a record lacking one after all
\* that have one, records of equal key in discovery order; configs
\* [b, a, absent, c] become [a, b, c, absent].
C3_RunsSortedStable ==
  /\ Built =>
       /\ Len(runs) = Len(files)
       /\ \A i \in 1..Len(files) : \E j \in 1..Len(runs) :
            runs[j] = CpacRun(files[i].path, SearchPath, files[i].lines)
       /\ \A j, k \in 1..Len(runs) : j < k =>
            /\ ~ConfigBefore(runs[k].pipeline_config, runs[j].pipeline_config)
            /\ runs[j].pipeline_config = runs[k].pipeline_config
                 => DiscoveryIndex(runs[j]) < DiscoveryIndex(runs[k])
  /\ LET sorted == SortRuns(<<RunNamed(Some(<<"b">>)), RunNamed(Some(<<"a">>)),
                             RunNamed(None), RunNamed(Some(<<"c">>))>>)
     IN  [i \in 1..4 |-> sorted[i].pipeline_config]
           = <<Some(<<"a">>), Some(<<"b">>), Some(<<"c">>), None>>

\* three runs were sorted into another order than they were found in, two
\* of them with the same pipeline_config
C3_Witness ==
  /\ phase = "built"
  /\ Len(runs) >= 3
  /\ \E j \in 1..Len(runs) : DiscoveryIndex(runs[j]) # j
  /\ \E j, k \in 1..Len(runs) :
       j < k /\ runs[j].pipeline_config = runs[k].pipeline_config

\* the key an error record is grouped by
TripleOf(e) == <<e.missing_resources, e.node_block, e.previous_node_block>>

RECURSIVE SumCounts(_)
SumCounts(table) ==
  IF table = <<>> THEN 0
  ELSE Head(table).number_of_pipelines_with_this_error + SumCounts(Tail(table))

\* C6: the error table has exactly one row per distinct (missing_resources,
\* node_block, previous_node_block) among the input error records; the row
\* carries the other columns of the first input record with that triple and
\* its count is the number of input records with the triple, so the counts
\* sum to the number of input records.
C6_OneRowPerTripleWithCount ==
  (phase = "rendered" /\ ~IsNone(report.errors)) =>
    LET table == Val(report.errors)
        input == ErrorRecords(runs)
        With(t) == {i \in 1..Len(input) : TripleOf(input[i]) = t}
    IN  /\ {Triple(table[r].row) : r \in 1..Len(table)}
             = {TripleOf(input[i]) : i \in 1..Len(input)}
        /\ \A r, q \in 1..Len(table) :
             r # q => Triple(table[r].row) # Triple(table[q].row)
        /\ \A r \in 1..Len(table) :
             LET same == With(Triple(table[r].row))
                 first == input[Min(same)]
                 segs == Split(Split(Val(first.pipeline_config), "/")[1], "_")
             IN  /\ table[r].row.id = Column(segs, 1)
                 /\ table[r].row.base_pipeline = AfterDash(Column(segs, 3))
                 /\ table[r].row.perturb_pipeline = AfterDash(Column(segs, 4))
                 /\ table[r].row.step = AfterDash(Column(segs, 5))
                 /\ table[r].row.connectivity = AfterDash(Column(segs, 6))
                 /\ table[r].row.nuisance = AfterDash(Column(segs, 7))
                 /\ table[r].number_of_pipelines_with_this_error
                      = Cardinality(same)
        /\ SumCounts(table) = Len(input)

\* a table was rendered from three error records, two of which share a
\* triple and differ in id: two rows, one of them counting 2
C6_Witness ==
  /\ phase = "rendered"
  /\ ~IsNone(report.errors)
  /\ Len(ErrorRecords(runs)) = 3
  /\ Len(Val(report.errors)) = 2
  /\ \E r \in 1..2 :
       Val(report.errors)[r].number_of_pipelines_with_this_error = 2
  /\ \E i, j \in 1..3 :
       /\ i # j
       /\ TripleOf(ErrorRecords(runs)[i]) = TripleOf(ErrorRecords(runs)[j])
       /\ ErrorRecords(runs)[i].pipeline_config
            # ErrorRecords(runs)[j].pipeline_config

\* C7: a rendered report's summary table has one row per discovered log
\* file, as many as the N of the header, and its rows are in the order of
\* the collection's runs, which is the order of the detail sections.
C7_OneSummaryRowPerLogFile ==
  phase = "rendered" =>
    /\ Len(report.summary) = Len(files)
    /\ report.n = Len(files)
    /\ Len(report.details) = Len(files)
    /\ \A i \in 1..Len(report.summary) :
         /\ report.summary[i].pipeline_config.title
              = Val(runs[i].pipeline_config)
         /\ report.summary[i].duration = runs[i].diff
         /\ report.summary[i].success = bool_to_emoji(Val(runs[i].success))
         /\ report.details[i].File = runs[i].log_file
         /\ report.details[i].file = runs[i].pipeline_config

\* a report of three runs, one succeeded and one failed
C7_Witness ==
  /\ phase = "rendered"
  /\ Len(files) = 3
  /\ \E i, j \in 1..3 :
       Val(runs[i].success) /\ ~Val(runs[j].success)

\* the log of a run holds no timestamp line
NoTimestamp(run) ==
  \A i \in 1..Len(run.log_text) : run.log_text[i].kind # "timestamp"

\* the number of "_" segments of what precedes the first "/"
SegmentCount(e) == Len(Split(Split(Val(e.pipeline_config), "/")[1], "_"))

\* C5: a run whose log holds no timestamp line has an absent duration, and
\* the report of a collection that contains such a run is still rendered:
\* the run is listed, and the slowest pipeline is the maximum over the runs
\* that have a duration.
C5_ReportRendersRunWithoutDuration ==
  (/\ phase \in {"rendered", "raised"}
   /\ \E i \in 1..Len(runs) : NoTimestamp(runs[i])
   /\ \A i \in 1..Len(ErrorRecords(runs)) :
        SegmentCount(ErrorRecords(runs)[i]) = 7)
  => /\ phase = "rendered"
     /\ \A i \in 1..Len(runs) : NoTimestamp(runs[i]) => IsNone(runs[i].diff)
     /\ Len(report.summary) = Len(runs)
     /\ report.slowest = MaxDuration([i \in 1..Len(runs) |-> Record(runs[i])])

\* C10: whenever an error table is rendered, every error record's
\* pipeline_config (before the first "/") splits on "_" into exactly the
\* seven expected segments: an error record that does not makes the
\* building of the table fail, and no row has shifted, missing or padded
\* columns.
C10_MalformedConfigFailsLoudly ==
  (phase = "rendered" /\ ~IsNone(report.errors)) =>
    \A i \in 1..Len(ErrorRecords(runs)) :
      SegmentCount(ErrorRecords(runs)[i]) = 7
=============================================================================
